---- MODULE Spec2Model ----
(***************************************************************************)
(* Model of the Finglish-to-Persian converter (finglish/f2p.py) and of the *)
(* clipboard hotkey handlers (main.py).                                    *)
(*                                                                         *)
(* Strings are sequences of one-character strings: "kha" is               *)
(* <<"k","h","a">>.  A Persian letter is written by its name ("KHE"); it   *)
(* is one character of the target script.  A Python call either returns a  *)
(* value or raises: Ok(v) and Raise(e).                                    *)
(***************************************************************************)
EXTENDS Integers, Sequences, FiniteSets, TLC

VARIABLES
    op,             \* the operation applied last ("input": none yet)
    word,           \* the word argument of variations / f2p_word
    phrase,         \* the phrase argument of f2p_list / f2p
    max_word_size,  \* the max_word_size argument
    cutoff,         \* the cutoff argument
    result,         \* what the operation returned (Ok) or raised (Raise)
    called,         \* the functions f2p_word called on the way
    pending,        \* the calls of variations not made yet, next one first
    current_keys,   \* main.current_keys
    clipboard,      \* the system clipboard (pyperclip.paste / pyperclip.copy)
    copy_calls,     \* how many times pyperclip.copy has been called
    outcome,        \* how the last handler call ended
    last_event      \* history: the last event the listener reported per key

vars == <<op, word, phrase, max_word_size, cutoff, result, called, pending,
          current_keys, clipboard, copy_calls, outcome, last_event>>

engine_vars ==
    <<op, word, phrase, max_word_size, cutoff, result, called, pending>>

hotkey_vars == <<current_keys, clipboard, copy_calls, outcome, last_event>>

----------------------------------------------------------------------------
(* Bounds of the model *)

\* longest word handed to variations
MaxSegLen == 4

\* longest word handed to f2p_word
MaxWordLen == 4

\* longest phrase handed to f2p_list / f2p
MaxPhraseLen == 3

\* largest cutoff argument
MaxCutoff == 2

\* most pyperclip.copy calls followed in one run
MaxCopies == 2

\* def f2p_word(word, max_word_size=15, cutoff=1)
DefaultMaxWordSize == 15

DefaultCutoff == 1

----------------------------------------------------------------------------
(* Python values *)

Ok(v) == [raised |-> FALSE, value |-> v]

Raise(e) == [raised |-> TRUE, value |-> e]

\* s[:n]
Take(s, n) == SubSeq(s, 1, IF n < Len(s) THEN n ELSE Len(s))

\* the slice taken one character too far: s[n+1:]
Drop_OneMore(s, n) == SubSeq(s, n + 2, Len(s))

\* s[n:]
Drop(s, n) == SubSeq(s, n + 1, Len(s))

\* x in [l1, l2, ...]
In(x, list) == \E i \in DOMAIN list : list[i] = x

\* ''.join(parts)
RECURSIVE Join(_)
Join(parts) ==
    IF parts = <<>> THEN <<>> ELSE Head(parts) \o Join(Tail(parts))

\* every sequence over S of length lo..hi
SeqsOf(S, lo, hi) == UNION {[1..n -> S] : n \in lo..hi}

----------------------------------------------------------------------------
(* variations: the segmenter *)

digraphs == << <<"k","h">>, <<"g","h">>, <<"c","h">>, <<"s","h">>,
               <<"z","h">>, <<"c","k">> >>

vowel_apostrophe == << <<"a","'">>, <<"e","'">>, <<"o","'">>, <<"i","'">>,
                       <<"u","'">>, <<"A","'">> >>

apostrophe_vowel == << <<"'","a">>, <<"'","e">>, <<"'","o">>, <<"'","i">>,
                       <<"'","u">>, <<"'","A">> >>

\* the comprehension with its head forgotten: [i for i in rest]
Prepend_NoHead(head, rest) == rest

\* [[head...] + i for i in rest], where rest is the value of a recursive call
Prepend(head, rest) ==
    IF rest.raised THEN rest
    ELSE Ok([i \in DOMAIN rest.value |-> head \o rest.value[i]])

\* the + of two list comprehensions over recursive calls
Plus(a, b) ==
    IF a.raised THEN a
    ELSE IF b.raised THEN b
    ELSE Ok(a.value \o b.value)

\* The empty word falls to the last else, whose comprehension first calls
\* variations(word[1:]), the empty word again: the interpreter ends the
\* descent with RecursionError.
RECURSIVE variations(_)
variations(w) ==
    IF w = <<"a">> THEN Ok(<< << <<"A">> >> >>)
    ELSE IF Len(w) = 1 THEN Ok(<< << <<w[1]>> >> >>)
    ELSE IF w = <<"a","a">> THEN Ok(<< << <<"A">> >> >>)
    ELSE IF w = <<"e","e">> THEN Ok(<< << <<"i">> >> >>)
    ELSE IF w = <<"e","i">> THEN Ok(<< << <<"e","i">> >> >>)
    ELSE IF In(w, << <<"o","o">>, <<"o","u">> >>) THEN Ok(<< << <<"u">> >> >>)
    ELSE IF w = <<"k","h","a">>
        THEN Ok(<< << <<"k","h","a">> >>, << <<"k","h">>, <<"a">> >> >>)
    ELSE IF In(w, digraphs) THEN Ok(<< <<w>> >>)
    ELSE IF In(w, << <<"'","e","e">>, <<"'","e","i">> >>)
        THEN Ok(<< << <<"'","i">> >> >>)
    ELSE IF In(w, << <<"'","o","o">>, <<"'","o","u">> >>)
        THEN Ok(<< << <<"'","u">> >> >>)
    ELSE IF In(w, vowel_apostrophe) THEN Ok(<< << <<w[1], "'">> >> >>)
    ELSE IF In(w, apostrophe_vowel) THEN Ok(<< << <<"'", w[2]>> >> >>)
    ELSE IF Len(w) = 2 /\ w[1] = w[2] THEN Ok(<< << <<w[1]>> >> >>)
    ELSE IF Take(w, 2) = <<"a","a">>
        THEN Prepend(<< <<"A">> >>, variations(Drop(w, 2)))
    ELSE IF Take(w, 2) = <<"e","e">>
        THEN Prepend(<< <<"i">> >>, variations(Drop(w, 2)))
    ELSE IF In(Take(w, 2), << <<"o","o">>, <<"o","u">> >>)
        THEN Prepend(<< <<"u">> >>, variations(Drop(w, 2)))
    ELSE IF Take(w, 3) = <<"k","h","a">>
        THEN Plus(Plus(Prepend(<< <<"k","h","a">> >>, variations(Drop(w, 3))),
                       Prepend(<< <<"k","h">>, <<"a">> >>, variations(Drop(w, 3)))),
                  Prepend(<< <<"k">>, <<"h">>, <<"a">> >>, variations(Drop(w, 3))))
    ELSE IF In(Take(w, 2), digraphs)
        THEN Plus(Prepend(<< Take(w, 2) >>, variations(Drop(w, 2))),
                  Prepend(<< <<w[1]>> >>, variations(Drop(w, 1))))
    ELSE IF In(Take(w, 2), vowel_apostrophe)
        THEN Prepend(<< Take(w, 2) >>, variations(Drop(w, 2)))
    ELSE IF In(Take(w, 3), << <<"'","e","e">>, <<"'","e","i">> >>)
        THEN Prepend(<< <<"'","i">> >>, variations(Drop(w, 3)))
    ELSE IF In(Take(w, 3), << <<"'","o","o">>, <<"'","o","u">> >>)
        THEN Prepend(<< <<"'","u">> >>, variations(Drop(w, 3)))
    ELSE IF In(Take(w, 2), apostrophe_vowel)
        THEN Prepend(<< Take(w, 2) >>, variations(Drop(w, 2)))
    ELSE IF Len(w) >= 2 /\ w[1] = w[2]
        THEN Prepend(<< <<w[1]>> >>, variations(Drop(w, 2)))
    ELSE IF Len(w) = 0 THEN Raise("RecursionError")
    ELSE Prepend(<< <<w[1]>> >>, variations(Drop(w, 1)))

\* the arguments of the calls variations(w) makes to itself, in the order it
\* makes them; none in the cases that return at once
recursive_calls(w) ==
    IF Len(w) = 1 THEN <<>>
    ELSE IF In(w, << <<"a","a">>, <<"e","e">>, <<"e","i">>, <<"o","o">>,
                     <<"o","u">>, <<"k","h","a">> >>) THEN <<>>
    ELSE IF In(w, digraphs) THEN <<>>
    ELSE IF In(w, << <<"'","e","e">>, <<"'","e","i">>, <<"'","o","o">>,
                     <<"'","o","u">> >>) THEN <<>>
    ELSE IF In(w, vowel_apostrophe) \/ In(w, apostrophe_vowel) THEN <<>>
    ELSE IF Len(w) = 2 /\ w[1] = w[2] THEN <<>>
    ELSE IF Take(w, 2) = <<"a","a">> THEN <<Drop(w, 2)>>
    ELSE IF Take(w, 2) = <<"e","e">> THEN <<Drop(w, 2)>>
    ELSE IF In(Take(w, 2), << <<"o","o">>, <<"o","u">> >>) THEN <<Drop(w, 2)>>
    ELSE IF Take(w, 3) = <<"k","h","a">>
        THEN <<Drop(w, 3), Drop(w, 3), Drop(w, 3)>>
    ELSE IF In(Take(w, 2), digraphs) THEN <<Drop(w, 2), Drop(w, 1)>>
    ELSE IF In(Take(w, 2), vowel_apostrophe) THEN <<Drop(w, 2)>>
    ELSE IF In(Take(w, 3), << <<"'","e","e">>, <<"'","e","i">> >>)
        THEN <<Drop(w, 3)>>
    ELSE IF In(Take(w, 3), << <<"'","o","o">>, <<"'","o","u">> >>)
        THEN <<Drop(w, 3)>>
    ELSE IF In(Take(w, 2), apostrophe_vowel) THEN <<Drop(w, 2)>>
    ELSE IF Len(w) >= 2 /\ w[1] = w[2] THEN <<Drop(w, 2)>>
    ELSE <<Drop(w, 1)>>

----------------------------------------------------------------------------
(* Resource tables, loaded once at import.  The converter reads them through *)
(* dict.get and the in operator only; their entries here are a small table   *)
(* set in the format of the resource files.                                  *)

\* the substitution token that stands for the empty string
nothing == <<"nothing">>

\* f2p-beginning.txt
beginning ==
    (<<"a">> :> << <<"ALEF">>, <<"AYN">> >>)
    @@ (<<"A">> :> << <<"ALEF_MADD">> >>)
    @@ (<<"e">> :> << <<"ALEF">>, <<"AYN">> >>)
    @@ (<<"i">> :> << <<"ALEF","YE">> >>)
    @@ (<<"k">> :> << <<"KAF">> >>)
    @@ (<<"h">> :> << <<"HE">>, <<"HEH_JIMI">> >>)
    @@ (<<"k","h">> :> << <<"KHE">> >>)
    @@ (<<"k","h","a">> :> << <<"KHE","VAV","ALEF">> >>)

\* f2p-middle.txt
middle ==
    (<<"a">> :> << <<"ALEF">>, nothing >>)
    @@ (<<"A">> :> << <<"ALEF">> >>)
    @@ (<<"e">> :> << nothing, <<"AYN">> >>)
    @@ (<<"i">> :> << <<"YE">> >>)
    @@ (<<"k">> :> << <<"KAF">> >>)
    @@ (<<"h">> :> << <<"HE">>, <<"HEH_JIMI">> >>)
    @@ (<<"k","h">> :> << <<"KHE">> >>)
    @@ (<<"k","h","a">> :> << <<"KHE","VAV","ALEF">> >>)

\* f2p-ending.txt
ending ==
    (<<"a">> :> << <<"ALEF">>, <<"HE">> >>)
    @@ (<<"A">> :> << <<"ALEF">> >>)
    @@ (<<"e">> :> << <<"HE">> >>)
    @@ (<<"i">> :> << <<"YE">> >>)
    @@ (<<"k">> :> << <<"KAF">> >>)
    @@ (<<"h">> :> << <<"HE">>, <<"HEH_JIMI">> >>)
    @@ (<<"k","h">> :> << <<"KHE">> >>)

\* persian-word-freq.txt
word_freq ==
    (<<"KHE","VAV","ALEF">> :> 5)
    @@ (<<"KHE","ALEF">> :> 40)
    @@ (<<"KHE","HE">> :> 100)
    @@ (<<"KAF","HE","HE">> :> 3)
    @@ (<<"ALEF","KAF">> :> 7)
    @@ (<<"AYN","KAF">> :> 2)
    @@ (<<"KAF","ALEF","KHE">> :> 30)
    @@ (<<"HE">> :> 9)

\* f2p-dict.txt
dictionary ==
    (<<"k","e">> :> <<"KAF","HE">>)
    @@ (<<"h","a","k">> :> <<"HEH_JIMI","QAF">>)

\* d.get(k): None is the empty tuple, a value v is <<v>>
Get(d, k) == IF k \in DOMAIN d THEN <<d[k]>> ELSE <<>>

----------------------------------------------------------------------------
(* Confidences: the float freq / max_freq is kept as the reduced fraction *)
(* <<num, den>>; 1.0 is <<1, 1>> and 0.0 is <<0, 1>>.                     *)

RECURSIVE Gcd(_, _)
Gcd(a, b) == IF b = 0 THEN a ELSE Gcd(b, a % b)

\* float(a / b), b > 0
Div(a, b) == <<a \div Gcd(a, b), b \div Gcd(a, b)>>

One == <<1, 1>>

Zero == <<0, 1>>

\* x < y on confidences
Less(x, y) == x[1] * y[2] < y[1] * x[2]

----------------------------------------------------------------------------
(* f2p_word_internal: the candidate generator *)

\* the table for the letter at index i (from 1) of a segmentation of n letters
Converter(i, n) ==
    IF i = 1 THEN beginning
    ELSE IF i = n THEN ending
    ELSE middle

\* ['' if i == 'nothing' else i for i in conversions]
Conversions(list) ==
    [j \in DOMAIN list |-> IF list[j] = nothing THEN <<>> ELSE list[j]]

\* itertools.product(*lists), each tuple joined: the leftmost list turns slowest
RECURSIVE Product(_)
Product(lists) ==
    IF lists = <<>> THEN << <<>> >>
    ELSE LET rest == Product(Tail(lists))
             first == Head(lists)
         IN  Join([i \in DOMAIN first |->
                    [j \in DOMAIN rest |-> first[i] \o rest[j]]])

\* word_freq[i] if i in word_freq else 0
Freq(text) == IF text \in DOMAIN word_freq THEN word_freq[text] ELSE 0

\* max(freq for _, freq in alternatives)
RECURSIVE MaxFreq(_)
MaxFreq(alts) ==
    IF Len(alts) = 1 THEN Freq(alts[1])
    ELSE LET m == MaxFreq(Tail(alts))
         IN  IF Freq(alts[1]) > m THEN Freq(alts[1]) ELSE m

\* float(freq / max_freq) if freq != 0 else 0.0
Confidence(freq, max_freq) ==
    IF freq # 0 THEN Div(freq, max_freq) ELSE Zero

f2p_word_internal(letters, original_word) ==
    LET n == Len(letters)
        found(i) == Get(Converter(i, n), letters[i])
    IN  IF \E i \in 1..n : found(i) = <<>>
        THEN << <<original_word, Zero>> >>
        ELSE LET persian == [i \in 1..n |-> Conversions(found(i)[1])]
                 alternatives == Product(persian)
             IN  IF Len(alternatives) > 0
                 THEN LET max_freq == MaxFreq(alternatives)
                      IN  [a \in DOMAIN alternatives |->
                            <<alternatives[a],
                              Confidence(Freq(alternatives[a]), max_freq)>>]
                 ELSE << <<Join(letters), One>> >>

----------------------------------------------------------------------------
(* f2p_word: the word converter *)

\* str.lower, on the characters of the model
LowerChar(c) ==
    CASE c = "K" -> "k"
      [] c = "S" -> "s"
      [] OTHER -> c

lower(s) == [i \in DOMAIN s |-> LowerChar(s[i])]

\* the mutant of InsertDesc: the new entry goes in front of its equals too
InsertDesc_Ascending(sorted, x) ==
    LET before == {p \in DOMAIN sorted : Less(x[2], sorted[p][2])}
        at == IF before = {} THEN Len(sorted) + 1
              ELSE CHOOSE p \in before : \A q \in before : p <= q
    IN  SubSeq(sorted, 1, at - 1) \o <<x>> \o SubSeq(sorted, at, Len(sorted))

\* one step of the stable descending sort: x goes before the first entry of
\* strictly smaller confidence, after every entry it ties with
InsertDesc(sorted, x) ==
    LET before == {p \in DOMAIN sorted : Less(sorted[p][2], x[2])}
        at == IF before = {} THEN Len(sorted) + 1
              ELSE CHOOSE p \in before : \A q \in before : p <= q
    IN  SubSeq(sorted, 1, at - 1) \o <<x>> \o SubSeq(sorted, at, Len(sorted))

\* results.sort(key=lambda r: r[1], reverse=True)
RECURSIVE SortDesc(_)
SortDesc(list) ==
    IF list = <<>> THEN <<>>
    ELSE InsertDesc(SortDesc(SubSeq(list, 1, Len(list) - 1)), list[Len(list)])

\* the candidates of every segmentation, in order, in one list
Merged(segs, original_word) ==
    Join([i \in DOMAIN segs |-> f2p_word_internal(segs[i], original_word)])

\* the mutant of Cut: one entry too many
Cut_OffByOne(results, k) == Take(results, k + 1)

\* results[:cutoff], cutoff >= 0
Cut(results, k) == Take(results, k)

\* the mutant of Override: the dictionary is asked for the word as typed
Override_AsTyped(w) == Get(dictionary, w)

\* c = dictionary.get(word), with word = word.lower()
Override(w) == Get(dictionary, lower(w))

\* the mutant of Overlong: the gate is off by one
Overlong_OffByOne(w, size) == Len(lower(w)) > size + 1

\* len(word) > max_word_size, with word = word.lower()
Overlong(w, size) == Len(lower(w)) > size

\* the rest of f2p_word once the segmentations are there: generate, merge,
\* sort, cut
Ranked(segs, w, k) ==
    IF segs.raised
    THEN [ret |-> segs, called |-> {"variations"}]
    ELSE [ret |-> Ok(Cut(SortDesc(Merged(segs.value, w)), k)),
          called |-> {"variations", "f2p_word_internal"}]

\* f2p_word with the functions it called: ret is what it returns or raises
f2p_word_run(w, size, k) ==
    LET c == Override(w)
    IN  IF c # <<>> /\ c[1] # <<>>
        THEN [ret |-> Ok(<< <<c[1], One>> >>), called |-> {}]
        ELSE IF lower(w) = <<>>
        THEN [ret |-> Ok(<<>>), called |-> {}]
        ELSE IF Overlong(w, size)
        THEN [ret |-> Ok(<< <<w, One>> >>), called |-> {}]
        ELSE Ranked(variations(lower(w)), w, k)

f2p_word(w, size, k) == f2p_word_run(w, size, k).ret


----------------------------------------------------------------------------
(* f2p_list and f2p: the phrase pipeline *)

\* the characters str.isspace and the regex class \s accept
SpaceChars == {" "}

\* the characters str.isalnum accepts: Latin letters, digits, Persian letters
AlnumChars ==
    {"a", "e", "i", "o", "u", "k", "h", "s", "K", "S", "1"}
    \cup {"ALEF", "ALEF_MADD", "AYN", "YE", "KAF", "HE", "HEH_JIMI", "KHE",
          "VAV", "QAF"}

\* the regex class \w
WordChars == AlnumChars \cup {"_"}

IsWordChar(c) == c \in WordChars

\* the regex class \s
IsSpaceChar(c) == c \in SpaceChars

\* the regex class [^\w\s]
IsPunctChar(c) == ~IsWordChar(c) /\ ~IsSpaceChar(c)

\* the length of the longest prefix of s whose characters are all in class
RunLength(s, class) ==
    IF \A i \in DOMAIN s : s[i] \in class THEN Len(s)
    ELSE (CHOOSE i \in DOMAIN s :
            /\ s[i] \notin class
            /\ \A j \in 1..(i - 1) : s[j] \in class) - 1

\* the mutant of MatchLength: the \s+ alternative is missing
MatchLength_NoSpace(s) ==
    IF RunLength(s, WordChars) > 0 THEN RunLength(s, WordChars)
    ELSE IF IsPunctChar(s[1]) THEN 1
    ELSE 0

\* the length of the match of \w+|[^\w\s]|\s+ at the start of s (s not empty),
\* the alternatives tried in order; 0 when none matches
MatchLength(s) ==
    IF RunLength(s, WordChars) > 0 THEN RunLength(s, WordChars)
    ELSE IF IsPunctChar(s[1]) THEN 1
    ELSE IF RunLength(s, SpaceChars) > 0 THEN RunLength(s, SpaceChars)
    ELSE 0

\* word_and_punct_regex.findall(s): the matches from left to right; a
\* character at which nothing matches is skipped
RECURSIVE findall(_)
findall(s) ==
    IF s = <<>> THEN <<>>
    ELSE LET n == MatchLength(s)
         IN  IF n = 0 THEN findall(Tail(s))
             ELSE <<Take(s, n)>> \o findall(Drop(s, n))

\* token.isspace()
isspace(token) == token # <<>> /\ \A i \in DOMAIN token : token[i] \in SpaceChars

\* token.isalnum()
isalnum(token) == token # <<>> /\ \A i \in DOMAIN token : token[i] \in AlnumChars

\* the mutant of MapPunct: the token is kept as typed
MapPunct_Verbatim(token) == token

\* ? and , become the Persian question mark and comma
MapPunct(token) ==
    IF token = <<"?">> THEN <<"PERSIAN_QUESTION">>
    ELSE IF token = <<",">> THEN <<"PERSIAN_COMMA">>
    ELSE token

\* the body of the loop over the tokens: what is appended for one token
Converted(token, size, k) ==
    IF isspace(token) THEN Ok(<< <<token, One>> >>)
    ELSE IF isalnum(token) THEN f2p_word(token, size, k)
    ELSE Ok(<< <<MapPunct(token), One>> >>)

\* the loop of f2p_list over the conversions of the tokens: the first raise
\* ends it, otherwise every conversion is appended
Collect(results) ==
    IF \E t \in DOMAIN results : results[t].raised
    THEN results[CHOOSE t \in DOMAIN results :
                    /\ results[t].raised
                    /\ \A u \in 1..(t - 1) : ~results[u].raised]
    ELSE Ok([t \in DOMAIN results |-> results[t].value])

ConvertAll(tokens, size, k) ==
    [t \in DOMAIN tokens |-> Converted(tokens[t], size, k)]

f2p_list(p, size, k) == Collect(ConvertAll(findall(p), size, k))

\* the loop of f2p: token = i[0][0] for each i, joined
FirstOfEach(results) ==
    IF results.raised THEN results
    ELSE IF \E i \in DOMAIN results.value : results.value[i] = <<>>
    THEN Raise("IndexError")
    ELSE Ok(Join([i \in DOMAIN results.value |-> results.value[i][1][1]]))

f2p(p, size, k) == FirstOfEach(f2p_list(p, size, k))

----------------------------------------------------------------------------
(* main.py: the hotkey handlers *)

\* {keyboard.Key.ctrl_l, keyboard.Key.f9}
COMBO == {"ctrl_l", "f9"}

\* the keys the listener reports: those of COMBO and one other
Keys == COMBO \cup {"shift"}

\* the texts another program may leave on the clipboard
ClipTexts == { <<>>, <<"k","e">>, <<"a","k">>, <<"k","h","a">>, <<"a"," ","?">> }

\* the conversion the handler calls: f2p(text), or a failure inside it
Conversion(text, fault) ==
    IF fault THEN Raise("Exception")
    ELSE f2p(text, DefaultMaxWordSize, DefaultCutoff)

\* the mutant of Guarded: the except branch falls through to pyperclip.copy
Guarded_CopyOnError(conv) ==
    [f2p_called |-> TRUE, f2p_raised |-> conv.raised,
     copy |-> IF conv.raised THEN << <<>> >> ELSE <<conv.value>>]

\* try: result = f2p(text) / except Exception: return / pyperclip.copy(result);
\* copy is the list of the arguments of the pyperclip.copy calls
Guarded(conv) ==
    IF conv.raised
    THEN [f2p_called |-> TRUE, f2p_raised |-> TRUE, copy |-> <<>>]
    ELSE [f2p_called |-> TRUE, f2p_raised |-> FALSE, copy |-> <<conv.value>>]

Nothing == [f2p_called |-> FALSE, f2p_raised |-> FALSE, copy |-> <<>>]

\* the body of on_press under the held combination
Handle(text, fault) ==
    IF text = <<>> THEN Nothing ELSE Guarded(Conversion(text, fault))

NoOutcome ==
    [handler |-> "none", held |-> FALSE, f2p_called |-> FALSE,
     f2p_raised |-> FALSE, copied |-> FALSE]

\* the state after on_press: keys is current_keys after the add, done what
\* the body did
Pressed(keys, held, done) ==
    /\ copy_calls + Len(done.copy) <= MaxCopies
    /\ current_keys' = keys
    /\ clipboard' = IF done.copy = <<>> THEN clipboard
                    ELSE done.copy[Len(done.copy)]
    /\ copy_calls' = copy_calls + Len(done.copy)
    /\ outcome' = [handler |-> "on_press", held |-> held,
                   f2p_called |-> done.f2p_called,
                   f2p_raised |-> done.f2p_raised,
                   copied |-> done.copy # <<>>]
    /\ UNCHANGED engine_vars

\* the mutant of Added: the key is added whether it is in COMBO or not
Added_AnyKey(key) == current_keys \cup {key}

\* current_keys after: if key in COMBO: current_keys.add(key)
Added(key) == IF key \in COMBO THEN current_keys \cup {key} ELSE current_keys

on_press(key, fault) ==
    /\ Pressed(Added(key), COMBO \subseteq Added(key),
               IF COMBO \subseteq Added(key) THEN Handle(clipboard, fault)
               ELSE Nothing)
    /\ last_event' = [last_event EXCEPT ![key] = "press"]

on_release(key) ==
    /\ current_keys' = IF key \in current_keys THEN current_keys \ {key}
                       ELSE current_keys
    /\ outcome' = [NoOutcome EXCEPT !.handler = "on_release"]
    /\ last_event' = [last_event EXCEPT ![key] = "release"]
    /\ UNCHANGED <<clipboard, copy_calls, engine_vars>>

\* another program puts a text on the clipboard
user_copy(text) ==
    /\ clipboard' = text
    /\ outcome' = [NoOutcome EXCEPT !.handler = "user_copy"]
    /\ UNCHANGED <<current_keys, copy_calls, last_event, engine_vars>>

InitHotkeyIdle ==
    /\ current_keys = {}
    /\ clipboard = <<>>
    /\ copy_calls = 0
    /\ outcome = NoOutcome
    /\ last_event = [key \in Keys |-> "none"]

InitEngineIdle ==
    /\ op = "input"
    /\ word = <<>>
    /\ phrase = <<>>
    /\ max_word_size = DefaultMaxWordSize
    /\ cutoff = DefaultCutoff
    /\ result = Ok(<<>>)
    /\ called = {}
    /\ pending = <<>>

InitHotkey ==
    /\ InitEngineIdle
    /\ current_keys = {}
    /\ clipboard \in ClipTexts
    /\ copy_calls = 0
    /\ outcome = NoOutcome
    /\ last_event = [key \in Keys |-> "none"]

OnPress == \E key \in Keys, fault \in BOOLEAN : on_press(key, fault)

OnRelease == \E key \in Keys : on_release(key)

UserCopy == \E text \in ClipTexts : user_copy(text)

NextHotkey ==
    \/ OnPress
    \/ OnRelease
    \/ UserCopy

SpecHotkey == InitHotkey /\ [][NextHotkey]_vars


----------------------------------------------------------------------------
(* The segmenter on its own: a lowercased word in, its segmentations out *)

SegAlphabet == {"a", "e", "i", "o", "u", "k", "h", "'"}

SegWords == SeqsOf(SegAlphabet, 1, MaxSegLen)

InitSeg ==
    /\ op = "input"
    /\ word \in SegWords
    /\ phrase = <<>>
    /\ max_word_size = DefaultMaxWordSize
    /\ cutoff = DefaultCutoff
    /\ result = Ok(<<>>)
    /\ called = {}
    /\ pending = <<>>
    /\ InitHotkeyIdle

CallVariations ==
    /\ op = "input"
    /\ op' = "variations"
    /\ result' = variations(word)
    /\ UNCHANGED <<word, phrase, max_word_size, cutoff, called, pending,
                 hotkey_vars>>

NextSeg == CallVariations

SpecSeg == InitSeg /\ [][NextSeg]_vars

----------------------------------------------------------------------------
(* The segmenter call by call: pending holds the calls of variations still   *)
(* to be made, the outer call first.  The interpreter runs a call as soon as *)
(* it is made, so the steps are weakly fair.                                 *)

\* letters of every prefix rule, a digit and the apostrophe
CallAlphabet == {"a", "e", "k", "h", "1", "'"}

CallWords == SeqsOf(CallAlphabet, 1, MaxSegLen)

InitCalls ==
    /\ op = "input"
    /\ word \in CallWords
    /\ phrase = <<>>
    /\ max_word_size = DefaultMaxWordSize
    /\ cutoff = DefaultCutoff
    /\ result = Ok(<<>>)
    /\ called = {}
    /\ pending = <<word>>
    /\ InitHotkeyIdle

\* the next pending call is entered and leaves its own calls to be made
\* before the remaining ones; on an empty argument it reaches the last else,
\* calls itself on word[1:] == '' again and so on up to the interpreter's
\* recursion limit
Call ==
    /\ op \in {"input", "recursing"}
    /\ pending # <<>>
    /\ IF Head(pending) = <<>>
       THEN /\ op' = "variations"
            /\ result' = Raise("RecursionError")
            /\ pending' = <<>>
       ELSE /\ op' = "recursing"
            /\ pending' = recursive_calls(Head(pending)) \o Tail(pending)
            /\ UNCHANGED result
    /\ UNCHANGED <<word, phrase, max_word_size, cutoff, called, hotkey_vars>>

\* no call is left: the outer call returns its list
Return ==
    /\ op = "recursing"
    /\ pending = <<>>
    /\ op' = "variations"
    /\ result' = variations(word)
    /\ UNCHANGED <<word, phrase, max_word_size, cutoff, called, pending,
                   hotkey_vars>>

NextCalls ==
    \/ Call
    \/ Return

SpecCalls == InitCalls /\ [][NextCalls]_vars /\ WF_vars(NextCalls)

----------------------------------------------------------------------------
(* The word converter: a word, max_word_size and cutoff in, candidates out *)

WordAlphabet == {"a", "e", "k", "h", "K", "1"}

Words == SeqsOf(WordAlphabet, 0, MaxWordLen)

\* the max_word_size arguments tried: below, at and above the lengths of the
\* words, and the default
WordSizes == {0, 1, 2, DefaultMaxWordSize}

Cutoffs == 0..MaxCutoff

InitWord ==
    /\ op = "input"
    /\ word \in Words
    /\ phrase = <<>>
    /\ max_word_size \in WordSizes
    /\ cutoff \in Cutoffs
    /\ result = Ok(<<>>)
    /\ called = {}
    /\ pending = <<>>
    /\ InitHotkeyIdle

CallF2pWord ==
    /\ op = "input"
    /\ op' = "f2p_word"
    /\ LET run == f2p_word_run(word, max_word_size, cutoff)
       IN  /\ result' = run.ret
           /\ called' = run.called
    /\ UNCHANGED <<word, phrase, max_word_size, cutoff, pending, hotkey_vars>>

NextWord == CallF2pWord

SpecWord == InitWord /\ [][NextWord]_vars


----------------------------------------------------------------------------
(* The phrase pipeline: a phrase, max_word_size and cutoff in *)

PhraseAlphabet == {"a", "k", "h", "K", " ", "?", ",", ".", "_"}

Phrases == SeqsOf(PhraseAlphabet, 0, MaxPhraseLen)

InitPhrase ==
    /\ op = "input"
    /\ word = <<>>
    /\ phrase \in Phrases
    /\ max_word_size \in WordSizes
    /\ cutoff \in Cutoffs
    /\ result = Ok(<<>>)
    /\ called = {}
    /\ pending = <<>>
    /\ InitHotkeyIdle

CallFindall ==
    /\ op = "input"
    /\ op' = "findall"
    /\ result' = Ok(findall(phrase))
    /\ UNCHANGED <<word, phrase, max_word_size, cutoff, called, pending,
                 hotkey_vars>>

CallF2pList ==
    /\ op = "input"
    /\ op' = "f2p_list"
    /\ result' = f2p_list(phrase, max_word_size, cutoff)
    /\ UNCHANGED <<word, phrase, max_word_size, cutoff, called, pending,
                 hotkey_vars>>

CallF2p ==
    /\ op = "input"
    /\ op' = "f2p"
    /\ result' = f2p(phrase, max_word_size, cutoff)
    /\ UNCHANGED <<word, phrase, max_word_size, cutoff, called, pending,
                 hotkey_vars>>

NextPhrase ==
    \/ CallFindall
    \/ CallF2pList
    \/ CallF2p

SpecPhrase == InitPhrase /\ [][NextPhrase]_vars


----------------------------------------------------------------------------
(* Claims about the segmenter *)

\* w has the string s somewhere in it
HasSub(w, s) ==
    \E i \in 1..Len(w) : i + Len(s) - 1 <= Len(w) /\ SubSeq(w, i, i + Len(s) - 1) = s

\* the blocks of a word that the cluster c can stand for: c itself, or a block
\* that the segmenter collapses into c
Sources(c) ==
    {c}
    \cup (IF c = <<"A">> THEN {<<"a">>, <<"a","a">>} ELSE {})
    \cup (IF c = <<"i">> THEN {<<"e","e">>} ELSE {})
    \cup (IF c = <<"u">> THEN {<<"o","o">>, <<"o","u">>} ELSE {})
    \cup (IF c = <<"'","i">> THEN {<<"'","e","e">>, <<"'","e","i">>} ELSE {})
    \cup (IF c = <<"'","u">> THEN {<<"'","o","o">>, <<"'","o","u">>} ELSE {})
    \cup (IF Len(c) = 1 THEN {<<c[1], c[1]>>} ELSE {})

\* the clusters of seg stand, in order, for consecutive blocks that make up w
RECURSIVE Covers(_, _)
Covers(seg, w) ==
    IF seg = <<>> THEN w = <<>>
    ELSE \E b \in Sources(Head(seg)) :
            /\ Take(w, Len(b)) = b
            /\ Covers(Tail(seg), Drop(w, Len(b)))

\* a word the segmenter has nothing to collapse in
Plain(w) ==
    /\ w[Len(w)] # "a"
    /\ \A i \in 1..(Len(w) - 1) : w[i] # w[i + 1]
    /\ ~HasSub(w, <<"o","u">>)
    /\ ~HasSub(w, <<"'","e","i">>)

\* C1 as stated: the clusters of every segmentation of a lowercased word
\* concatenate to the word exactly.
C1_ConcatIsWord ==
    op = "variations" =>
        /\ ~result.raised
        /\ \A i \in DOMAIN result.value : Join(result.value[i]) = word

\* C1 amended: every segmentation is a non-empty list of non-empty clusters
\* that stand, in order, for consecutive blocks making up the word, each
\* cluster being its block verbatim or the block's collapsed form (a, aa -> A;
\* ee -> i; oo, ou -> u; 'ee, 'ei -> 'i; 'oo, 'ou -> 'u; xx -> x); the
\* concatenation is the word itself when the word does not end in a and has
\* no doubled character, no ou and no 'ei.
C1_CoversWord ==
    op = "variations" =>
        /\ ~result.raised
        /\ result.value # <<>>
        /\ \A i \in DOMAIN result.value :
            LET seg == result.value[i] IN
            /\ seg # <<>>
            /\ \A j \in DOMAIN seg : seg[j] # <<>>
            /\ Covers(seg, word)
            /\ Plain(word) => Join(seg) = word

\* a word with two segmentations, one of which does not concatenate to it
C1_Witness ==
    /\ op = "variations"
    /\ ~result.raised
    /\ Len(result.value) >= 2
    /\ \E i \in DOMAIN result.value : Join(result.value[i]) # word
    /\ \E i \in DOMAIN result.value : Join(result.value[i]) = word

----------------------------------------------------------------------------
(* Claims about the word converter *)

\* the lowercased word is a key of the override dictionary
IsOverridden(w) == lower(w) \in DOMAIN dictionary

\* the word runs through segmentation, generation, sort and cut
IsRanked(w, size) == ~IsOverridden(w) /\ w # <<>> /\ Len(w) <= size

\* every candidate generated for the word, over all its segmentations, as
\* <<text, confidence>>, in generation order
AllCandidates(w) == Merged(variations(lower(w)).value, w)

C3_AtMostCutoff ==
    op = "f2p_word" => (~result.raised /\ Len(result.value) <= cutoff)

\* C3 amended: f2p_word returns at most cutoff entries when cutoff >= 1, or
\* when the word is neither an override key nor longer than max_word_size;
\* under cutoff 0 an override key or an overlong word still returns its one
\* entry.
C3_AtMostCutoffRanked ==
    op = "f2p_word" =>
        /\ ~result.raised
        /\ (cutoff >= 1 \/ (~IsOverridden(word) /\ Len(word) <= max_word_size))
            => Len(result.value) <= cutoff
        /\ (cutoff = 0 /\ (IsOverridden(word) \/ Len(word) > max_word_size))
            => Len(result.value) = 1

\* a word with more candidates than the cutoff keeps
C3_Witness ==
    /\ op = "f2p_word"
    /\ IsRanked(word, max_word_size)
    /\ cutoff = 1
    /\ Len(AllCandidates(word)) > 2
    /\ Len(result.value) = 1

C8_ConfidenceNonIncreasing ==
    op = "f2p_word" =>
        /\ ~result.raised
        /\ \A i, j \in DOMAIN result.value :
            i < j => ~Less(result.value[i][2], result.value[j][2])
        /\ (IsRanked(word, max_word_size) /\ cutoff >= 1) =>
            /\ result.value # <<>>
            /\ \A c \in DOMAIN AllCandidates(word) :
                ~Less(result.value[1][2], AllCandidates(word)[c][2])

\* two entries of different confidence, the larger first, where the larger
\* was not generated first
C8_Witness ==
    /\ op = "f2p_word"
    /\ IsRanked(word, max_word_size)
    /\ Len(result.value) = 2
    /\ Less(result.value[2][2], result.value[1][2])
    /\ Less(AllCandidates(word)[1][2], result.value[1][2])

\* C10: of two candidates generated for one word, over all its segmentations,
\* the one of strictly greater confidence has a corpus count at least as
\* large, so the first entry returned (cutoff >= 1, word neither overridden
\* nor overlong) has the largest corpus count of all generated candidates.
C10_ConfidenceFollowsCount ==
    (op = "f2p_word" /\ IsRanked(word, max_word_size) /\ cutoff >= 1) =>
        /\ \A a, b \in DOMAIN AllCandidates(word) :
            Less(AllCandidates(word)[b][2], AllCandidates(word)[a][2])
                => Freq(AllCandidates(word)[a][1]) >= Freq(AllCandidates(word)[b][1])
        /\ \A c \in DOMAIN AllCandidates(word) :
            Freq(result.value[1][1]) >= Freq(AllCandidates(word)[c][1])

----------------------------------------------------------------------------
(* Claims about the phrase pipeline *)

\* C4: f2p_word, f2p_list and f2p return without raising for every phrase,
\* max_word_size >= 0 and cutoff >= 0; f2p finds a first candidate for every
\* token.
C4_NeverRaises ==
    op \in {"f2p_list", "f2p"} => ~result.raised

\* the token is one of the three kinds the regex matches
IsToken(t) ==
    /\ t # <<>>
    /\ \/ \A i \in DOMAIN t : IsWordChar(t[i])
       \/ \A i \in DOMAIN t : IsSpaceChar(t[i])
       \/ Len(t) = 1 /\ IsPunctChar(t[1])

\* C6: the tokens of a phrase are non-empty matches of one of the three
\* kinds, they do not overlap, and joined in order they give the phrase back;
\* f2p_list returns one inner list per token.
C6_TokenizationLossless ==
    /\ op = "findall" =>
        /\ Join(result.value) = phrase
        /\ \A t \in DOMAIN result.value : IsToken(result.value[t])
    /\ op = "f2p_list" =>
        /\ ~result.raised
        /\ Len(result.value) = Len(findall(phrase))

\* a phrase of three tokens, one of each kind
C6_Witness ==
    /\ op = "findall"
    /\ Len(result.value) = 3
    /\ \E t \in DOMAIN result.value : isspace(result.value[t])
    /\ \E t \in DOMAIN result.value : isalnum(result.value[t])
    /\ \E t \in DOMAIN result.value : IsPunctChar(result.value[t][1])

\* a character as the pipeline must leave it in a whitespace or punctuation
\* token
Kept(c) ==
    IF c = "?" THEN "PERSIAN_QUESTION"
    ELSE IF c = "," THEN "PERSIAN_COMMA"
    ELSE c

\* C7: every whitespace token and every punctuation token yields the one
\* candidate (t', 1.0), t' the token with only ? and , replaced by their
\* Persian forms; f2p of a phrase of whitespace and punctuation only is the
\* phrase with only those two characters replaced.
C7_SpacesAndPunctuationKept ==
    /\ op = "f2p_list" =>
        /\ ~result.raised
        /\ \A t \in DOMAIN findall(phrase) :
            LET token == findall(phrase)[t] IN
            (isspace(token) \/ IsPunctChar(token[1])) =>
                result.value[t] =
                    << <<[i \in DOMAIN token |-> Kept(token[i])], One>> >>
    /\ (op = "f2p" /\ \A i \in DOMAIN phrase :
                        IsSpaceChar(phrase[i]) \/ IsPunctChar(phrase[i])) =>
        result = Ok([i \in DOMAIN phrase |-> Kept(phrase[i])])

\* a phrase of a space run, a ? and a , only, converted
C7_Witness ==
    /\ op = "f2p"
    /\ ~result.raised
    /\ \E i \in DOMAIN phrase : phrase[i] = "?"
    /\ \E i \in DOMAIN phrase : phrase[i] = ","
    /\ \E i \in DOMAIN phrase : phrase[i] = " "
    /\ \A i \in DOMAIN phrase : IsSpaceChar(phrase[i]) \/ IsPunctChar(phrase[i])

\* C11: every token that is a run of word characters (\w+, a run with an
\* underscore in it too) is converted by f2p_word with the given
\* max_word_size and cutoff: its inner list is what f2p_word returns for it.
C11_WordTokensRouted ==
    op = "f2p_list" =>
        /\ ~result.raised
        /\ \A t \in DOMAIN findall(phrase) :
            LET token == findall(phrase)[t] IN
            IsWordChar(token[1]) =>
                result.value[t] = f2p_word(token, max_word_size, cutoff).value


----------------------------------------------------------------------------
(* Claims about the calls of the segmenter *)

\* c is a suffix of w that is neither empty nor the whole of w
IsShorterSuffix(c, w) ==
    /\ c # <<>>
    /\ Len(c) < Len(w)
    /\ c = SubSeq(w, Len(w) - Len(c) + 1, Len(w))

\* the calls the step has just left to be made: those in front of the ones
\* that were waiting behind the call entered
NewCalls == SubSeq(pending', 1, Len(pending') - (Len(pending) - 1))

\* every call variations makes to itself has a non-empty, strictly shorter
\* suffix of the caller's argument as its argument
CallsShrink ==
    (pending # <<>> /\ op' = "recursing") =>
        \A i \in DOMAIN NewCalls : IsShorterSuffix(NewCalls[i], Head(pending))

\* when variations has returned, it has returned a list of at least one
\* segmentation and raised nothing
ReturnsSegmentation ==
    op = "variations" => (~result.raised /\ Len(result.value) >= 1)

\* C12: for every non-empty word over letters, digits and apostrophes,
\* variations terminates and returns at least one segmentation, and every
\* recursive call is made on a strictly shorter, non-empty suffix of its
\* caller's argument.
C12_SegmenterTerminates ==
    /\ [][CallsShrink]_vars
    /\ []ReturnsSegmentation
    /\ <>(op = "variations")

\* a word with a digit in it whose segmentation took a branching call
C12_Witness ==
    /\ op = "variations"
    /\ \E i \in DOMAIN word : word[i] = "1"
    /\ ~result.raised
    /\ Len(result.value) >= 2

----------------------------------------------------------------------------
(* Claims about the hotkey handlers *)

\* C9: an on_press call under the held combination that finds the clipboard
\* empty, or whose f2p raises, makes no pyperclip.copy call and leaves the
\* clipboard as it was.
C9_ClipboardKept ==
    [][(/\ outcome'.handler = "on_press"
        /\ outcome'.held
        /\ (clipboard = <<>> \/ outcome'.f2p_raised))
       => (/\ clipboard' = clipboard
           /\ copy_calls' = copy_calls
           /\ ~outcome'.copied)]_vars

\* on_press under the held combination, f2p raised on a non-empty clipboard
C9_Witness ==
    /\ outcome.handler = "on_press"
    /\ outcome.held
    /\ outcome.f2p_called
    /\ outcome.f2p_raised
    /\ ~outcome.copied
    /\ clipboard # <<>>
    /\ copy_calls > 0

\* the keys of COMBO whose most recent event was a press
HeldKeys == {key \in COMBO : last_event[key] = "press"}

\* the step ran the conversion or wrote to the clipboard through pyperclip.copy
Converts == copy_calls' # copy_calls \/ outcome'.f2p_called

\* C13: after any sequence of on_press / on_release events current_keys is
\* exactly the set of COMBO keys whose most recent event was a press (no
\* other key is ever stored), and a conversion or clipboard write happens
\* only in an on_press call at which every key of COMBO is in current_keys.
C13_HotkeyGating ==
    /\ [](current_keys = HeldKeys)
    /\ [][Converts =>
            (outcome'.handler = "on_press" /\ COMBO \subseteq current_keys')]_vars

\* the combination was held and converted, the other key was pressed too,
\* and F9 has been released since
C13_Witness ==
    /\ copy_calls >= 1
    /\ outcome.handler = "on_release"
    /\ last_event = [key \in Keys |-> IF key = "f9" THEN "release" ELSE "press"]
    /\ current_keys = {"ctrl_l"}

====
